---- MODULE Spec2Model ----
(***************************************************************************)
(* OPEN-ICE: per-pixel spring breakup detection.                           *)
(*                                                                         *)
(* The model follows breakupDetection() from STEP 4 on: the logistic       *)
(* temporal filter (logisticFilter.py), the observation count and R2, the  *)
(* ice-water-water sequence detection (sequenceDetection.py) and the       *)
(* assembly of the breakup image.  An image is a record of bands, a band   *)
(* a function from the pixels of the tile to a value or NoData (masked).   *)
(*                                                                         *)
(* Units.  'system:time_start' is counted in half days since Jan 1st       *)
(* 00:00 of 'year'; the time covariate of the regression is that number    *)
(* (fracYear is an affine function of it, and a least squares fit is       *)
(* invariant under affine changes of x).  Logits are held in hundredths,   *)
(* fitted values, residuals and the R2 of an image in thousandths.          *)
(***************************************************************************)
EXTENDS Integers, Sequences, FiniteSets, TLC

----------------------------------------------------------------------------
(* Bounds of the model *)

\* longest image collection (number of satellite passes over the tile)
MaxLen == 5

\* acquisition times (half days since Jan 1st): day of year 46 (poiStart,
\* a morning and an afternoon pass), 50, 90, 100, 105
TimeStarts == {90, 91, 98, 178, 198, 208}

\* the tiles analysed: sets of pixels
Tiles == {{"p"}}

\* longest collection handed to addDummyData alone
MaxSeries == 26

\* half days between two passes of the collections handed to addDummyData alone
PassStep == 3

\* longest collection augmented with dummy water and then analysed
MaxDummyLen == 6

\* the tiles of more than one pixel
WideTiles == {{"p", "q"}}

\* longest collection over a tile of more than one pixel
MaxTileLen == 3

\* acquisition times over a tile of more than one pixel: day of year 46, 50,
\* 90, 100
TileStarts == {90, 98, 178, 198}

\* longest collection handed to detectSpringBreakup in an arbitrary order
MaxPermLen == 4

\* acquisition times of the collections handed over in an arbitrary order:
\* day of year 46 (two passes), 50, 90, 100
PermStarts == {90, 91, 98, 178, 198}

----------------------------------------------------------------------------
(* Program constants *)

ICE == 1
WATER == 0
\* a masked (no data) pixel of a band
NoData == -9999
\* half days in a day: resolution of system:time_start in the model
UnitsPerDay == 2
\* ee.Date.fromYMD(year, 2, 15), in half days since Jan 1st
PoiStart == 90
\* logit of the remapped classes, ln(0.999/0.001) = 6.907, in hundredths
LogitIce == 691
\* ee.Reducer.linearRegression(numX = 2, numY = 1)
NumX == 2
\* residual threshold of temporalFilter, in thousandths
ResidualMax == 850
\* fixed point scale of Exp
ExpScale == 10000
\* largest unsigned 16 bit integer
Uint16Max == 65535
\* ee.Date.fromYMD(year, 9, 1) and ee.Date.fromYMD(year, 10, 1), in half days
\* since Jan 1st of a year of 365 days
DummyStart == 486
DummyEnd == 546
\* nDummy is a tenth of the size of the collection
DummyShare == 10

VARIABLES
    tile,          \* pixels of the tile
    logFilter,     \* parameter logFilter of breakupDetection
    fitAtNumX,     \* whether linearRegression solves with exactly numX inputs
    srcCol,        \* the merged, classified collection as it entered STEP 4
    imgCol,        \* imgCol of breakupDetection
    nPixels,       \* band nPixels
    rSquared,      \* band R2
    seqCol,        \* imgCol of detectSpringBreakup (prepped, sorted)
    idx,           \* position of iterate() in seqCol
    iceBreakupImg, \* accumulator of iterate(), then result of detectSpringBreakup
    breakupImg,    \* exported image: breakupDate, R2, nPixels, breakupGap
    pc

vars == <<tile, logFilter, fitAtNumX, srcCol, imgCol, nPixels, rSquared, seqCol, idx,
          iceBreakupImg, breakupImg, pc>>

----------------------------------------------------------------------------
(* Arithmetic helpers *)

Abs(x) == IF x < 0 THEN -x ELSE x

\* nearest integer to a / b, b > 0
RoundDiv(a, b) == (2 * a + b) \div (2 * b)

\* .toUint16(): saturating cast
ToUint16(v) == IF v < 0 THEN 0 ELSE IF v > Uint16Max THEN Uint16Max ELSE v

\* a band that is masked on every pixel of tile T
Masked(T) == [p \in T |-> NoData]

\* a constant image ee.Image(v) over tile T
Const(T, v) == [p \in T |-> v]

RECURSIVE SumOver(_, _, _)
\* sum of f[i] for i in 1..n, skipping NoData (masked pixels are ignored)
SumOver(f, n, acc) ==
    IF n = 0 THEN acc
    ELSE SumOver(f, n - 1, IF f[n] = NoData THEN acc ELSE acc + f[n])

\* ee.Reducer.count(): number of unmasked values
CountOver(f) == Cardinality({i \in DOMAIN f : f[i] # NoData})

----------------------------------------------------------------------------
(* Sorting an image collection by 'system:time_start' *)

RECURSIVE InsertBy(_, _, _)
\* img put in front of the first image of the sorted col that does not precede it
InsertBy(img, col, asc) ==
    IF col = << >> THEN <<img>>
    ELSE IF (asc /\ img.time_start <= Head(col).time_start)
            \/ (~asc /\ img.time_start >= Head(col).time_start)
         THEN <<img>> \o col
         ELSE <<Head(col)>> \o InsertBy(img, Tail(col), asc)

RECURSIVE SortColReversed(_, _)
\* SortCol with the sense of the order inverted
SortColReversed(col, asc) ==
    IF col = << >> THEN << >>
    ELSE InsertBy(Head(col), SortColReversed(Tail(col), asc), ~asc)

\* SortCol that keeps the order in which the images came
SortColKeep(col, asc) == col

RECURSIVE SortCol(_, _)
\* imgCol.sort('system:time_start', asc): stable insertion sort
SortCol(col, asc) ==
    IF col = << >> THEN << >>
    ELSE InsertBy(Head(col), SortCol(Tail(col), asc), asc)

----------------------------------------------------------------------------
(* logisticFilter.py: fitLogisticRegression *)

\* prepLogisticInputs: remap [0,1] to [0.001,0.999], ln(yt / (1 - yt));
\* masked where the class is masked
Logity(cls) ==
    IF cls = NoData THEN NoData
    ELSE IF cls = ICE THEN LogitIce ELSE -LogitIce

\* The sums of the normal equations of logity ~ constant + x at pixel p, over
\* the images where every input band is unmasked.  ok is FALSE where the
\* reducer returns null: the system is underdetermined.
LinearRegression(col, p) ==
    LET n   == CountOver([i \in 1..Len(col) |-> col[i].classIce[p]])
        xs  == [i \in 1..Len(col) |->
                  IF col[i].classIce[p] = NoData THEN NoData
                  ELSE col[i].time_start]
        ys  == [i \in 1..Len(col) |-> Logity(col[i].classIce[p])]
        X   == SumOver(xs, Len(col), 0)
        Y   == SumOver(ys, Len(col), 0)
        XX  == SumOver([i \in 1..Len(col) |->
                  IF xs[i] = NoData THEN NoData ELSE xs[i] * xs[i]],
                  Len(col), 0)
        XY  == SumOver([i \in 1..Len(col) |->
                  IF xs[i] = NoData THEN NoData ELSE xs[i] * ys[i]],
                  Len(col), 0)
    IN  [ok  |-> n > NumX \/ (n = NumX /\ fitAtNumX),
         n   |-> n, X |-> X, Y |-> Y,
         Sxx |-> n * XX - X * X,
         Sxy |-> n * XY - X * Y]

RECURSIVE MulDivNat(_, _, _)
\* <<q, r>> with a * b = q * c + r and 0 <= r < c, for a, b >= 0 and c > 0,
\* by doubling: the product itself is never formed
MulDivNat(a, b, c) ==
    IF b = 0 THEN <<0, 0>>
    ELSE LET h   == MulDivNat(a, b \div 2, c)
             odd == b % 2 = 1
             r   == ((2 * h[2]) % c) + (IF odd THEN a % c ELSE 0)
         IN  <<2 * h[1] + ((2 * h[2]) \div c) + (IF odd THEN a \div c ELSE 0)
                 + (r \div c),
               r % c>>

\* the same for a and b of either sign
MulDiv(a, b, c) ==
    LET h == MulDivNat(Abs(a), Abs(b), c)
    IN  IF (a < 0) = (b < 0) \/ (h[1] = 0 /\ h[2] = 0) THEN h
        ELSE IF h[2] = 0 THEN <<-h[1], 0>>
        ELSE <<-h[1] - 1, c - h[2]>>

\* B0 + B1 * x in hundredths, with B1 = Sxy / Sxx and B0 = (Y - B1 * X) / n:
\* (Y * Sxx + Sxy * (n * x - X)) / (n * Sxx), rounded
Linear(c, x) ==
    LET den == c.n * c.Sxx
        u   == MulDiv(c.Sxx, c.Y, den)
        v   == MulDiv(c.Sxy, c.n * x - c.X, den)
    IN  u[1] + v[1] + (u[2] + v[2] + den \div 2) \div den

RECURSIVE ExpNeg(_)
\* ExpScale * exp(-k / 100) for k >= 0: exp(-1) and exp(-0.1) by repeated
\* multiplication, then the Taylor series of the remainder
ExpNeg(k) ==
    IF k >= 100 THEN (ExpNeg(k - 100) * 3679) \div ExpScale
    ELSE IF k >= 10 THEN (ExpNeg(k - 10) * 9048) \div ExpScale
    ELSE ExpScale - 100 * k + (k * k) \div 2 - (k * k * k) \div 600

\* addFitted: top / (1 + top) with top = exp(z), in thousandths.  For z > 0
\* the quotient is taken as 1 / (1 / top + 1) to keep top in range.
Sigmoid(z) ==
    IF z <= 0
    THEN RoundDiv(1000 * ExpNeg(-z), ExpScale + ExpNeg(-z))
    ELSE RoundDiv(1000 * ExpScale, ExpScale + ExpNeg(z))

\* addFitted: the fitted value at pixel p of img, masked where the
\* coefficients or the class are masked
Fitted(c, img, p) ==
    IF ~c.ok \/ img.classIce[p] = NoData THEN NoData
    ELSE Sigmoid(Linear(c, img.time_start))

\* addResiduals: fitted - observed
Residuals(fit, cls) ==
    IF fit = NoData \/ cls = NoData THEN NoData ELSE fit - 1000 * cls

\* addRsquared: SSR / SSTO in thousandths, with yflat the mean observed class;
\* divide() returns 0 for a division by 0
RSquared(c, col, p) ==
    LET n    == c.n
        k    == SumOver([i \in 1..Len(col) |-> col[i].classIce[p]], Len(col), 0)
        fit  == [i \in 1..Len(col) |-> Fitted(c, col[i], p)]
        SSR  == SumOver([i \in 1..Len(col) |->
                   IF fit[i] = NoData THEN NoData
                   ELSE ((n * fit[i] - 1000 * k) * (n * fit[i] - 1000 * k)) \div 100],
                   Len(col), 0)
        SSTO == SumOver([i \in 1..Len(col) |->
                   IF col[i].classIce[p] = NoData THEN NoData
                   ELSE ((1000 * n * col[i].classIce[p] - 1000 * k)
                         * (1000 * n * col[i].classIce[p] - 1000 * k)) \div 100],
                   Len(col), 0)
    IN  IF ~c.ok THEN NoData
        ELSE IF SSTO = 0 THEN 0
        ELSE RoundDiv(1000 * (SSR \div 100), SSTO \div 100)

\* fitLogisticRegression(imgCol, 'classIce', 'fracYear'): bands fitted,
\* residuals and R2 added to every image
FitLogisticRegression(col, T) ==
    [i \in 1..Len(col) |->
        LET img == col[i]
            fit == [p \in T |-> Fitted(LinearRegression(col, p), img, p)]
        IN  [img EXCEPT
                !.fitted    = fit,
                !.residuals = [p \in T |-> Residuals(fit[p], img.classIce[p])],
                !.R2        = [p \in T |-> RSquared(LinearRegression(col, p), col, p)]]]

\* TemporalMask on the signed residual
TemporalMaskSigned(res) == res # NoData /\ res <= ResidualMax

\* temporalFilter: mask = |residuals| <= 0.85, a masked residual masks
TemporalMask(res) == res # NoData /\ Abs(res) <= ResidualMax

\* img.updateMask(mask): every band of the image takes the mask
TemporalFilter(img, T) ==
    LET keep(b) == [p \in T |-> IF TemporalMask(img.residuals[p]) THEN b[p] ELSE NoData]
    IN  [img EXCEPT
            !.classIce  = keep(img.classIce),
            !.fitted    = keep(img.fitted),
            !.residuals = keep(img.residuals),
            !.R2        = keep(img.R2)]

\* ee.Reducer.firstNonNull() over band values f[1..n]
RECURSIVE FirstNonNullFrom(_, _)
FirstNonNullFrom(f, i) ==
    IF i > Len(f) THEN NoData
    ELSE IF f[i] # NoData THEN f[i]
    ELSE FirstNonNullFrom(f, i + 1)

FirstNonNull(f) == FirstNonNullFrom(f, 1)

\* CountPixels that leaves the empty image in the count
CountPixelsOneMore(col, T) ==
    [p \in T |->
        ToUint16(CountOver([i \in 1..Len(col) |-> col[i].classIce[p]]) + 1)]

\* Count non-masked pixels in stack: the empty image is counted, then subtracted
CountPixels(col, T) ==
    [p \in T |->
        ToUint16(CountOver([i \in 1..Len(col) |-> col[i].classIce[p]]) + 1 - 1)]

\* RSquaredBand read from the first image of the stack
RSquaredBandFirst(col, T) ==
    [p \in T |->
        LET r == IF col = << >> THEN NoData ELSE col[1].R2[p]
        IN  IF r = NoData THEN NoData ELSE ToUint16(RoundDiv(r, 10))]

\* R2 band: first non null R2 of the stack, times 100, rounded
RSquaredBand(col, T) ==
    [p \in T |->
        LET r == FirstNonNull([i \in 1..Len(col) |-> col[i].R2[p]])
        IN  IF r = NoData THEN NoData ELSE ToUint16(RoundDiv(r, 10))]

----------------------------------------------------------------------------
(* Initial state: the merged, classified collection of breakupDetection,  *)
(* sorted in reverse chronological order (line 131)                        *)

Class3 == {ICE, WATER, NoData}

\* a classified image at time ts with class band cls
Image(ts, cls, T) ==
    [time_start |-> ts, classIce |-> cls,
     fitted |-> Masked(T), residuals |-> Masked(T), R2 |-> Masked(T)]

RECURSIVE ColOf(_, _, _)
\* the images at the times of S in reverse chronological order
ColOf(S, cls, T) ==
    IF S = {} THEN << >>
    ELSE LET m == CHOOSE t \in S : \A u \in S : u <= t
         IN  <<Image(m, cls[m], T)>> \o ColOf(S \ {m}, cls, T)

EmptyBreakupImg(T) ==
    [classIce |-> Masked(T), t |-> Masked(T),
     classIce_1 |-> Masked(T), t_1 |-> Masked(T),
     classIce_2 |-> Masked(T), t_2 |-> Masked(T),
     seqDetected |-> Masked(T), mask |-> Const(T, 0)]

EmptyResult(T) ==
    [breakupDate |-> Masked(T), R2 |-> Masked(T),
     nPixels |-> Masked(T), breakupGap |-> Masked(T)]

Init ==
    /\ tile \in Tiles
    /\ logFilter \in BOOLEAN
    /\ fitAtNumX \in BOOLEAN
    /\ \E S \in SUBSET TimeStarts :
          /\ Cardinality(S) <= MaxLen
          /\ \A ts \in S : ts >= PoiStart
          /\ \E cls \in [S -> [tile -> Class3]] : srcCol = ColOf(S, cls, tile)
    /\ imgCol = srcCol
    /\ nPixels = Masked(tile)
    /\ rSquared = Masked(tile)
    /\ seqCol = << >>
    /\ idx = 0
    /\ iceBreakupImg = EmptyBreakupImg(tile)
    /\ breakupImg = EmptyResult(tile)
    /\ pc = "filter"

----------------------------------------------------------------------------
(* breakupDetection.py, STEP 4: temporal filter, nPixels, R2 *)

\* lines 143-159: sort in reverse chronological order, add fracYear, fit
FitStep ==
    /\ pc = "filter"
    /\ logFilter
    /\ imgCol' = FitLogisticRegression(SortCol(imgCol, FALSE), tile)
    /\ pc' = "fitted"
    /\ UNCHANGED <<tile, logFilter, fitAtNumX, srcCol, nPixels, rSquared, seqCol, idx,
                   iceBreakupImg, breakupImg>>

\* lines 162-165: mask out high residuals, sort chronologically
FilterStep ==
    /\ pc = "fitted"
    /\ imgCol' = SortCol([i \in 1..Len(imgCol) |-> TemporalFilter(imgCol[i], tile)],
                         TRUE)
    /\ pc' = "filtered"
    /\ UNCHANGED <<tile, logFilter, fitAtNumX, srcCol, nPixels, rSquared, seqCol, idx,
                   iceBreakupImg, breakupImg>>

\* lines 167-182: count non-masked pixels, get R2 of the filter
CountFiltered ==
    /\ pc = "filtered"
    /\ nPixels' = CountPixels(imgCol, tile)
    /\ rSquared' = RSquaredBand(imgCol, tile)
    /\ pc' = "detect"
    /\ UNCHANGED <<tile, logFilter, fitAtNumX, srcCol, imgCol, seqCol, idx,
                   iceBreakupImg, breakupImg>>

\* CountUnfiltered that runs the temporal filter all the same
CountUnfilteredFiltering ==
    /\ pc = "filter"
    /\ ~logFilter
    /\ imgCol' = SortCol([i \in 1..Len(imgCol) |->
                     TemporalFilter(FitLogisticRegression(imgCol, tile)[i], tile)], TRUE)
    /\ nPixels' = CountPixels(imgCol', tile)
    /\ rSquared' = Masked(tile)
    /\ pc' = "detect"
    /\ UNCHANGED <<tile, logFilter, fitAtNumX, srcCol, seqCol, idx,
                   iceBreakupImg, breakupImg>>

\* lines 184-198: logFilter is False: count, empty R2 band
CountUnfiltered ==
    /\ pc = "filter"
    /\ ~logFilter
    /\ nPixels' = CountPixels(imgCol, tile)
    /\ rSquared' = Masked(tile)
    /\ pc' = "detect"
    /\ UNCHANGED <<tile, logFilter, fitAtNumX, srcCol, imgCol, seqCol, idx,
                   iceBreakupImg, breakupImg>>

----------------------------------------------------------------------------
(* sequenceDetection.py *)

\* day of year: date.getRelative('day', 'year').add(1)
Doy(ts) == ts \div UnitsPerDay + 1

\* prep4ChangeDetection: bands classIce and t (day of year), as uint16
Prep4ChangeDetection(img, T) ==
    [time_start |-> img.time_start,
     classIce   |-> [p \in T |-> IF img.classIce[p] = NoData THEN NoData
                                 ELSE ToUint16(img.classIce[p])],
     t          |-> Const(T, ToUint16(Doy(img.time_start)))]

\* the initial all ice image at poiStart, no sequence detected, clipped to T
AllIceImg(T) ==
    [classIce   |-> Const(T, ToUint16(ICE)), t   |-> Const(T, ToUint16(Doy(PoiStart))),
     classIce_1 |-> Const(T, ToUint16(ICE)), t_1 |-> Const(T, ToUint16(Doy(PoiStart))),
     classIce_2 |-> Const(T, ToUint16(ICE)), t_2 |-> Const(T, ToUint16(Doy(PoiStart))),
     seqDetected |-> Const(T, ToUint16(0)),
     mask |-> Const(T, 1)]

\* Pixels2Update without the guard on a flagged sequence: the slots keep shifting
Pixels2UpdateNoGuard(image, img, p) == image.classIce[p] # NoData

\* Pixels2Update that holds back once any pixel of the tile is flagged
Pixels2UpdateTileWide(image, img, p) ==
    /\ image.classIce[p] # NoData
    /\ \A q \in DOMAIN img.seqDetected : img.seqDetected[q] # 1

\* Pixels2Update that does not look at the mask of the image
Pixels2UpdateMasked(image, img, p) == img.seqDetected[p] # 1

\* pixels2Update: the image has data and no sequence is flagged yet
Pixels2Update(image, img, p) ==
    LET pixelHasData      == IF image.classIce[p] # NoData THEN 1 ELSE 0
        noBreakupDetected == IF img.seqDetected[p] = 1 THEN 0 ELSE 1
    IN  pixelHasData + noBreakupDetected = 2

\* SeqDetected without the test of the current observation
SeqDetectedNoCond1(c0, c1, c2) ==
    ToUint16(IF c1 = WATER /\ c2 = ICE THEN 1 ELSE 0)

\* has an ice-water-water sequence been identified
SeqDetected(c0, c1, c2) ==
    LET cond1 == IF c0 = WATER THEN 1 ELSE 0
        cond2 == IF c1 = WATER THEN 1 ELSE 0
        cond3 == IF c2 = ICE THEN 1 ELSE 0
    IN  ToUint16(IF cond1 + cond2 + cond3 = 3 THEN 1 ELSE 0)

\* breakupDate(image, iceBreakupImg): one step of iterate()
BreakupDate(image, img, T) ==
    LET upd(p) == Pixels2Update(image, img, p)
        Where(old, new) == [p \in T |-> IF upd(p) THEN new[p] ELSE old[p]]
        c0 == Where(img.classIce, image.classIce)
        c1 == Where(img.classIce_1, img.classIce)
        c2 == Where(img.classIce_2, img.classIce_1)
    IN  [img EXCEPT
            !.classIce   = c0,
            !.t          = Where(img.t, image.t),
            !.classIce_1 = c1,
            !.t_1        = Where(img.t_1, img.t),
            !.classIce_2 = c2,
            !.t_2        = Where(img.t_2, img.t_1),
            !.seqDetected = [p \in T |-> SeqDetected(c0[p], c1[p], c2[p])]]

\* FirstObsIsIce that lets every pixel with an observation through
FirstObsIsIceAny(col, p) ==
    LET f == FirstNonNull([i \in 1..Len(col) |-> col[i].classIce[p]])
    IN  IF f = NoData THEN NoData ELSE 1

\* firstObsIsIce: first non null class of the sorted collection equals 1
FirstObsIsIce(col, p) ==
    LET f == FirstNonNull([i \in 1..Len(col) |-> col[i].classIce[p]])
    IN  IF f = NoData THEN NoData ELSE IF f = ICE THEN 1 ELSE 0

\* UpdateMask that leaves the mask as it is
UpdateMaskNone(img, m, T) == img

\* img.updateMask(m): a pixel stays where its mask and m are both 1
UpdateMask(img, m, T) ==
    [img EXCEPT !.mask = [p \in T |-> IF img.mask[p] = 1 /\ m[p] = 1 THEN 1 ELSE 0]]

\* the value of band b of img at pixel p, NoData where img is masked
Band(img, b, p) == IF img.mask[p] = 1 THEN img[b][p] ELSE NoData

\* detectSpringBreakup, lines 109-119
DetectSetup ==
    /\ pc = "detect"
    /\ seqCol' = SortCol([i \in 1..Len(imgCol) |-> Prep4ChangeDetection(imgCol[i], tile)],
                         TRUE)
    /\ iceBreakupImg' = AllIceImg(tile)
    /\ idx' = 1
    /\ pc' = "iterate"
    /\ UNCHANGED <<tile, logFilter, fitAtNumX, srcCol, imgCol, nPixels, rSquared, breakupImg>>

\* detectSpringBreakup, line 123: iterate() calls breakupDate on the next image
IterateStep ==
    /\ pc = "iterate"
    /\ idx <= Len(seqCol)
    /\ iceBreakupImg' = BreakupDate(seqCol[idx], iceBreakupImg, tile)
    /\ idx' = idx + 1
    /\ UNCHANGED <<tile, logFilter, fitAtNumX, srcCol, imgCol, nPixels, rSquared, seqCol,
                   breakupImg, pc>>

\* MaskFirstObs on the first observation of the collection before the filter
MaskFirstObsUnfiltered ==
    /\ pc = "iterate"
    /\ idx > Len(seqCol)
    /\ iceBreakupImg' =
          UpdateMask(iceBreakupImg,
                     [p \in tile |->
                        FirstObsIsIce(SortCol([i \in 1..Len(srcCol) |->
                                          Prep4ChangeDetection(srcCol[i], tile)], TRUE), p)],
                     tile)
    /\ pc' = "assemble"
    /\ UNCHANGED <<tile, logFilter, fitAtNumX, srcCol, imgCol, nPixels, rSquared, seqCol,
                   idx, breakupImg>>

\* detectSpringBreakup, lines 125-132: mask where the first observation is water
MaskFirstObs ==
    /\ pc = "iterate"
    /\ idx > Len(seqCol)
    /\ iceBreakupImg' = UpdateMask(iceBreakupImg,
                                   [p \in tile |-> FirstObsIsIce(seqCol, p)], tile)
    /\ pc' = "assemble"
    /\ UNCHANGED <<tile, logFilter, fitAtNumX, srcCol, imgCol, nPixels, rSquared, seqCol,
                   idx, breakupImg>>

----------------------------------------------------------------------------
(* breakupDetection.py, STEP 5: bands of the exported image *)

\* BreakupDateBand as the comment of the source describes it: the average
BreakupDateBandAverage(img, p) ==
    IF Band(img, "seqDetected", p) = 1
    THEN (Band(img, "t_1", p) + Band(img, "t_2", p)) \div 2
    ELSE NoData

\* breakupDate: t_1 where seqDetected equals 1
BreakupDateBand(img, p) ==
    IF Band(img, "seqDetected", p) = 1 THEN Band(img, "t_1", p) ELSE NoData

\* BreakupGapBand without the seqDetected mask
BreakupGapBandUnmasked(img, p) ==
    IF img.mask[p] = 1 THEN ToUint16(Band(img, "t_1", p) - Band(img, "t_2", p))
    ELSE NoData

\* breakupGap: t_1 - t_2 as uint16 where seqDetected equals 1
BreakupGapBand(img, p) ==
    IF Band(img, "seqDetected", p) = 1
    THEN ToUint16(Band(img, "t_1", p) - Band(img, "t_2", p))
    ELSE NoData

\* lines 212-227
Assemble ==
    /\ pc = "assemble"
    /\ breakupImg' = [breakupDate |-> [p \in tile |-> BreakupDateBand(iceBreakupImg, p)],
                      R2          |-> rSquared,
                      nPixels     |-> nPixels,
                      breakupGap  |-> [p \in tile |-> BreakupGapBand(iceBreakupImg, p)]]
    /\ pc' = "done"
    /\ UNCHANGED <<tile, logFilter, fitAtNumX, srcCol, imgCol, nPixels, rSquared, seqCol,
                   idx, iceBreakupImg>>

----------------------------------------------------------------------------
(* dummyWater.py *)

\* img.set('dummy', 'YES') and img.set('dummy', 'NO')
AddPropDummyYes(img) == [x \in {"dummy"} |-> "YES"] @@ img
AddPropDummyNo(img) == [x \in {"dummy"} |-> "NO"] @@ img

\* a water image over T with 'system:time_start' set to datestamp
DummyWaterImg(datestamp, T) == Image(datestamp, Const(T, ToUint16(WATER)), T)

\* ee.List.sequence(start, end, count = count): count evenly spaced values
ListSequence(start, end, count) ==
    [i \in 1..count |->
        IF count = 1 THEN start
        ELSE start + ((i - 1) * (end - start)) \div (count - 1)]

\* dummyCollection: nDummy water images from Sept 1st to Oct 1st; the pixels
\* of T are inside the tile and the water mask
DummyCollection(T, nDummy) ==
    LET waterStamps == ListSequence(DummyStart, DummyEnd, nDummy)
    IN  [i \in 1..nDummy |-> DummyWaterImg(waterStamps[i], T)]

\* AddDummyData with the tenth truncated
AddDummyDataFloor(col, T) ==
    LET nDummy    == Len(col) \div DummyShare
        dummyData == DummyCollection(T, nDummy)
    IN  [i \in 1..Len(col) |-> AddPropDummyNo(col[i])]
        \o [i \in 1..nDummy |-> AddPropDummyYes(dummyData[i])]

\* addDummyData: nDummy = size / 10 rounded, real and dummy images flagged
\* and merged
AddDummyData(col, T) ==
    LET nDummy    == RoundDiv(Len(col), DummyShare)
        dummyData == DummyCollection(T, nDummy)
    IN  [i \in 1..Len(col) |-> AddPropDummyNo(col[i])]
        \o [i \in 1..nDummy |-> AddPropDummyYes(dummyData[i])]

\* addDummyData applied to the classified collection before the filter
AddDummyStep ==
    /\ pc = "augment"
    /\ imgCol' = AddDummyData(imgCol, tile)
    /\ pc' = "filter"
    /\ UNCHANGED <<tile, logFilter, fitAtNumX, srcCol, nPixels, rSquared, seqCol, idx,
                   iceBreakupImg, breakupImg>>

\* a collection of n passes, PassStep half days apart from poiStart on: ice
\* on the first k passes and water after, pass m (if any) masked
PassTimes(n) == {PoiStart + PassStep * (i - 1) : i \in 1..n}
PassClass(ts, k, m, T) ==
    LET i == (ts - PoiStart) \div PassStep + 1
    IN  Const(T, IF i = m THEN NoData ELSE IF i <= k THEN ICE ELSE WATER)

\* the collections handed to addDummyData alone
InitAugment ==
    /\ tile \in Tiles
    /\ logFilter = FALSE
    /\ fitAtNumX = FALSE
    /\ \E n \in 0..MaxSeries : \E k, m \in 0..n :
          srcCol = ColOf(PassTimes(n), [ts \in PassTimes(n) |-> PassClass(ts, k, m, tile)],
                         tile)
    /\ imgCol = srcCol
    /\ nPixels = Masked(tile)
    /\ rSquared = Masked(tile)
    /\ seqCol = << >>
    /\ idx = 0
    /\ iceBreakupImg = EmptyBreakupImg(tile)
    /\ breakupImg = EmptyResult(tile)
    /\ pc = "augment"

\* the collections augmented with dummy water and then analysed
InitDummy ==
    /\ tile \in Tiles
    /\ logFilter \in BOOLEAN
    /\ fitAtNumX \in BOOLEAN
    /\ \E S \in SUBSET TimeStarts :
          /\ Cardinality(S) <= MaxDummyLen
          /\ \A ts \in S : ts >= PoiStart
          /\ \E cls \in [S -> [tile -> Class3]] : srcCol = ColOf(S, cls, tile)
    /\ imgCol = srcCol
    /\ nPixels = Masked(tile)
    /\ rSquared = Masked(tile)
    /\ seqCol = << >>
    /\ idx = 0
    /\ iceBreakupImg = EmptyBreakupImg(tile)
    /\ breakupImg = EmptyResult(tile)
    /\ pc = "augment"

----------------------------------------------------------------------------
(* detectSpringBreakup on a collection in an arbitrary order *)

\* the permutations of 1..n
Perms(n) == {f \in [1..n -> 1..n] : \A i, j \in 1..n : f[i] = f[j] => i = j}

\* images with distinct acquisition times, in any order
InitPerm ==
    /\ tile \in Tiles
    /\ logFilter = FALSE
    /\ fitAtNumX = FALSE
    /\ \E S \in SUBSET PermStarts :
          /\ Cardinality(S) <= MaxPermLen
          /\ \E cls \in [S -> [tile -> Class3]] : srcCol = ColOf(S, cls, tile)
    /\ \E f \in Perms(Len(srcCol)) : imgCol = [i \in 1..Len(srcCol) |-> srcCol[f[i]]]
    /\ nPixels = Masked(tile)
    /\ rSquared = Masked(tile)
    /\ seqCol = << >>
    /\ idx = 0
    /\ iceBreakupImg = EmptyBreakupImg(tile)
    /\ breakupImg = EmptyResult(tile)
    /\ pc = "detect"

----------------------------------------------------------------------------
(* breakupDetection with logFilter False over a tile of two pixels *)

InitTile ==
    /\ tile \in WideTiles
    /\ logFilter = FALSE
    /\ fitAtNumX = FALSE
    /\ \E S \in SUBSET TileStarts :
          /\ Cardinality(S) <= MaxTileLen
          /\ \A ts \in S : ts >= PoiStart
          /\ \E cls \in [S -> [tile -> Class3]] : srcCol = ColOf(S, cls, tile)
    /\ imgCol = srcCol
    /\ nPixels = Masked(tile)
    /\ rSquared = Masked(tile)
    /\ seqCol = << >>
    /\ idx = 0
    /\ iceBreakupImg = EmptyBreakupImg(tile)
    /\ breakupImg = EmptyResult(tile)
    /\ pc = "filter"

----------------------------------------------------------------------------
(* Vocabulary of the properties *)

\* the images of col with an observation at pixel p, in the order of col
PresentObs(col, p) == SelectSeq(col, LAMBDA im : im.classIce[p] # NoData)

\* the classes and the days of year of the observations of col at pixel p
ClassesAt(col, p) == [k \in 1..Len(PresentObs(col, p)) |-> PresentObs(col, p)[k].classIce[p]]
DaysAt(col, p) == [k \in 1..Len(PresentObs(col, p)) |-> PresentObs(col, p)[k].t[p]]

\* observations k, k+1, k+2 of the series cs are ICE, WATER, WATER
TripleAt(cs, k) ==
    /\ k >= 1 /\ k + 2 <= Len(cs)
    /\ cs[k] = ICE /\ cs[k + 1] = WATER /\ cs[k + 2] = WATER

HasTriple(cs) == \E k \in 1..Len(cs) : TripleAt(cs, k)

\* position of the ICE of the earliest triple
FirstTriple(cs) ==
    CHOOSE k \in 1..Len(cs) : TripleAt(cs, k) /\ \A j \in 1..(k - 1) : ~TripleAt(cs, j)

\* iterate() has consumed the whole collection
ScanEnded ==
    \/ pc = "iterate" /\ idx > Len(seqCol)
    \/ pc \in {"assemble", "done"}

----------------------------------------------------------------------------
(* C1: a series scanned in ascending time order whose first observation is *)
(* ICE and that holds observations ICE, WATER, WATER in a row ends the     *)
(* scan flagged, t_1 the day of the first WATER and t_2 the day of the ICE *)
(* of the earliest such triple.                                            *)
C1_EarliestTriple ==
    ScanEnded =>
        \A p \in tile :
            LET cs == ClassesAt(seqCol, p)
                ds == DaysAt(seqCol, p)
            IN  (Len(cs) > 0 /\ cs[1] = ICE /\ HasTriple(cs)) =>
                    /\ iceBreakupImg.seqDetected[p] = 1
                    /\ iceBreakupImg.t_1[p] = ds[FirstTriple(cs) + 1]
                    /\ iceBreakupImg.t_2[p] = ds[FirstTriple(cs)]

\* Scenario A, and a series whose triple is followed by more observations
C1_Witness ==
    /\ ScanEnded
    /\ \E p \in tile :
          /\ ClassesAt(seqCol, p) = <<ICE, ICE, WATER, WATER>>
          /\ DaysAt(seqCol, p) = <<50, 90, 100, 105>>
          /\ iceBreakupImg.seqDetected[p] = 1
          /\ iceBreakupImg.t_1[p] = 100
          /\ iceBreakupImg.t_2[p] = 90

----------------------------------------------------------------------------
(* C2 as stated: where the first observation of the scanned series is      *)
(* WATER, no band of the exported image is reported for the pixel.         *)
C2_FullyMasked ==
    pc = "done" =>
        \A p \in tile :
            LET cs == ClassesAt(seqCol, p)
            IN  (Len(cs) > 0 /\ cs[1] = WATER) =>
                    /\ breakupImg.breakupDate[p] = NoData
                    /\ breakupImg.breakupGap[p] = NoData
                    /\ breakupImg.R2[p] = NoData
                    /\ breakupImg.nPixels[p] = NoData

(* C2 amended: where the first observation of the scanned series is WATER, *)
(* breakupDate and breakupGap are masked, even when a later ICE, WATER,    *)
(* WATER triple exists; nPixels, and R2 when the filter ran, are reported   *)
(* all the same.                                                           *)
C2_DateAndGapMasked ==
    pc = "done" =>
        \A p \in tile :
            LET cs == ClassesAt(seqCol, p)
            IN  (Len(cs) > 0 /\ cs[1] = WATER) =>
                    /\ breakupImg.breakupDate[p] = NoData
                    /\ breakupImg.breakupGap[p] = NoData
                    /\ breakupImg.nPixels[p] = Len(cs)
                    /\ logFilter => breakupImg.R2[p] # NoData

\* Scenario B: the scan flagged the triple at days 90, 100, 105
C2_Witness ==
    /\ pc = "done"
    /\ \E p \in tile :
          /\ ClassesAt(seqCol, p) = <<WATER, ICE, WATER, WATER>>
          /\ DaysAt(seqCol, p) = <<50, 90, 100, 105>>
          /\ iceBreakupImg.seqDetected[p] = 1
          /\ iceBreakupImg.t_1[p] = 100
          /\ breakupImg.breakupDate[p] = NoData

----------------------------------------------------------------------------
----------------------------------------------------------------------------
(* C4 as stated, read on the pixels whose flag the first observation check *)
(* keeps (the reported pixels): where detected, t_2 < t_1.                 *)
C4_StrictlyBefore ==
    pc = "done" =>
        \A p \in tile :
            Band(iceBreakupImg, "seqDetected", p) = 1 =>
                iceBreakupImg.t_2[p] < iceBreakupImg.t_1[p]

(* C4 amended: where the scan ends flagged, t_2 <= t_1; the two days of    *)
(* year are equal when the last ice and the first water were observed on   *)
(* the same day, and t_2 < t_1 when they were observed on different days.  *)
C4_NotAfter ==
    ScanEnded =>
        \A p \in tile :
            LET cs  == ClassesAt(seqCol, p)
                obs == PresentObs(seqCol, p)
                k   == FirstTriple(cs)
            IN  iceBreakupImg.seqDetected[p] = 1 =>
                    /\ iceBreakupImg.t_2[p] <= iceBreakupImg.t_1[p]
                    /\ (cs[1] = ICE
                        /\ Doy(obs[k].time_start) # Doy(obs[k + 1].time_start)) =>
                           iceBreakupImg.t_2[p] < iceBreakupImg.t_1[p]

\* ice in the morning and water in the afternoon of day 46: a gap of 0 days
C4_Witness ==
    /\ pc = "done"
    /\ \E p \in tile :
          /\ iceBreakupImg.seqDetected[p] = 1
          /\ iceBreakupImg.t_2[p] = 46
          /\ iceBreakupImg.t_1[p] = 46
          /\ breakupImg.breakupDate[p] = 46
          /\ breakupImg.breakupGap[p] = 0

----------------------------------------------------------------------------
----------------------------------------------------------------------------
(* C6 as stated: a series without observations ICE, WATER, WATER in a row  *)
(* ends the scan unflagged and the pixel has no breakupDate.               *)
C6_NoTripleNoFlag ==
    ScanEnded =>
        \A p \in tile :
            ~HasTriple(ClassesAt(seqCol, p)) =>
                /\ iceBreakupImg.seqDetected[p] = 0
                /\ pc = "done" => breakupImg.breakupDate[p] = NoData

(* C6 amended: a series without observations ICE, WATER, WATER in a row    *)
(* has no breakupDate and no breakupGap; its scan ends unflagged unless    *)
(* the series begins with two WATER observations, which the initial all    *)
(* ice image completes to a flagged sequence.                              *)
C6_NoTripleNoDate ==
    ScanEnded =>
        \A p \in tile :
            LET cs == ClassesAt(seqCol, p)
            IN  ~HasTriple(cs) =>
                    /\ iceBreakupImg.seqDetected[p] = 1 <=>
                          (Len(cs) >= 2 /\ cs[1] = WATER /\ cs[2] = WATER)
                    /\ pc = "done" =>
                          /\ breakupImg.breakupDate[p] = NoData
                          /\ breakupImg.breakupGap[p] = NoData

\* Scenario D: an alternating series
C6_Witness ==
    /\ pc = "done"
    /\ \E p \in tile :
          /\ ClassesAt(seqCol, p) = <<ICE, WATER, ICE, WATER>>
          /\ iceBreakupImg.seqDetected[p] = 0
          /\ breakupImg.breakupDate[p] = NoData
          /\ breakupImg.nPixels[p] = 4

----------------------------------------------------------------------------
(* Vocabulary of the filter properties, on the collection as it entered *)

\* number of observations of the entering collection at pixel p
NumPresent(p) == Len(PresentObs(srcCol, p))

\* the residual the fit gives observation i of the entering collection
SrcResidual(i, p) ==
    Residuals(Fitted(LinearRegression(srcCol, p), srcCol[i], p), srcCol[i].classIce[p])

\* the observations of pixel p that the filter, when it runs, keeps
Survivors(p) ==
    {i \in 1..Len(srcCol) :
        /\ srcCol[i].classIce[p] # NoData
        /\ logFilter => (SrcResidual(i, p) # NoData /\ Abs(SrcResidual(i, p)) <= ResidualMax)}

\* the image of the entering collection acquired at time ts
SrcIndex(ts) == CHOOSE i \in 1..Len(srcCol) : srcCol[i].time_start = ts

\* the filter has run (or was skipped)
Filtered == pc \notin {"filter", "fitted"}

----------------------------------------------------------------------------
----------------------------------------------------------------------------
(* C8 as stated: with the filter on, a pixel with exactly one observation  *)
(* has no fit, ends the scan unflagged and has nPixels = 1.                *)
C8_SingleObservation ==
    pc = "done" =>
        \A p \in tile :
            (logFilter /\ NumPresent(p) = 1) =>
                /\ ~LinearRegression(srcCol, p).ok
                /\ iceBreakupImg.seqDetected[p] = 0
                /\ breakupImg.nPixels[p] = 1

----------------------------------------------------------------------------
(* C9: after temporalFilter an observation is still present exactly when   *)
(* its residual is at most 0.85 in magnitude, and a present observation    *)
(* has |fitted - observed| <= 0.85.                                        *)
C9_FilterBound ==
    (logFilter /\ Filtered) =>
        \A i \in 1..Len(imgCol) : \A p \in tile :
            LET r == SrcResidual(SrcIndex(imgCol[i].time_start), p)
            IN  /\ imgCol[i].classIce[p] # NoData =>
                      /\ imgCol[i].fitted[p] # NoData
                      /\ Abs(imgCol[i].fitted[p] - 1000 * imgCol[i].classIce[p])
                            <= ResidualMax
                /\ imgCol[i].classIce[p] # NoData <=>
                      (r # NoData /\ Abs(r) <= ResidualMax)

\* one observation went with a residual above 0.85, another stayed with a
\* residual of some size
C9_Witness ==
    /\ logFilter /\ pc = "filtered"
    /\ \E p \in tile : \E i, j \in 1..Len(imgCol) :
          /\ imgCol[i].classIce[p] = NoData
          /\ SrcResidual(SrcIndex(imgCol[i].time_start), p) # NoData
          /\ Abs(SrcResidual(SrcIndex(imgCol[i].time_start), p)) > ResidualMax
          /\ imgCol[j].classIce[p] # NoData
          /\ Abs(imgCol[j].residuals[p]) > 100

----------------------------------------------------------------------------
(* C10: where the regression produced a fit, R2 is reported, whichever     *)
(* observations the filter discards and whether or not a breakup is found. *)
C10_R2Reported ==
    (pc = "done" /\ logFilter) =>
        \A p \in tile :
            LinearRegression(srcCol, p).ok =>
                /\ breakupImg.R2[p] # NoData
                /\ breakupImg.R2[p] =
                      ToUint16(RoundDiv(RSquared(LinearRegression(srcCol, p), srcCol, p), 10))

\* the chronologically first observation was discarded, no breakup was found
C10_Witness ==
    /\ pc = "done" /\ logFilter
    /\ \E p \in tile :
          /\ LinearRegression(srcCol, p).ok
          /\ imgCol[1].classIce[p] = NoData
          /\ srcCol[SrcIndex(imgCol[1].time_start)].classIce[p] # NoData
          /\ breakupImg.breakupDate[p] = NoData
          /\ breakupImg.R2[p] # NoData

----------------------------------------------------------------------------
(* C11: with logFilter False no observation is removed: the collection the *)
(* count and detectSpringBreakup receive is the one that entered, nPixels  *)
(* is the number of present observations, the scan sees each of them, and  *)
(* the R2 band is masked on every pixel.                                   *)
C11_NoFilterNoR2 ==
    (~logFilter /\ pc \notin {"filter"}) =>
        /\ imgCol = srcCol
        /\ \A p \in tile :
              /\ nPixels[p] = NumPresent(p)
              /\ rSquared[p] = NoData
              /\ pc = "done" =>
                    /\ breakupImg.R2[p] = NoData
                    /\ breakupImg.nPixels[p] = NumPresent(p)
        /\ pc \notin {"detect"} =>
              /\ Len(seqCol) = Len(srcCol)
              /\ \A i \in 1..Len(srcCol) :
                    /\ seqCol[Len(srcCol) + 1 - i].time_start = srcCol[i].time_start
                    /\ seqCol[Len(srcCol) + 1 - i].classIce = srcCol[i].classIce

\* an observation the filter would have discarded is counted and scanned
C11_Witness ==
    /\ pc = "done" /\ ~logFilter
    /\ \E p \in tile : \E i \in 1..Len(srcCol) :
          /\ SrcResidual(i, p) # NoData
          /\ Abs(SrcResidual(i, p)) > ResidualMax
          /\ breakupImg.nPixels[p] = NumPresent(p)
          /\ NumPresent(p) >= 4
          /\ breakupImg.R2[p] = NoData
          /\ breakupImg.breakupDate[p] # NoData

----------------------------------------------------------------------------
(* Vocabulary of the dummy water properties *)

\* the collection the filter receives once dummy water was added
AugCol == AddDummyData(srcCol, tile)

\* the residual the fit over the augmented collection gives its image i
AugResidual(i, p) ==
    Residuals(Fitted(LinearRegression(AugCol, p), AugCol[i], p), AugCol[i].classIce[p])

\* the images of the augmented collection with an observation of pixel p
\* that the filter, when it runs, keeps
AugSurvivors(p) ==
    {i \in 1..Len(AugCol) :
        /\ AugCol[i].classIce[p] # NoData
        /\ logFilter => (AugResidual(i, p) # NoData /\ Abs(AugResidual(i, p)) <= ResidualMax)}

----------------------------------------------------------------------------
(* C12 as stated: with dummy water appended, nPixels is the number of real *)
(* (not dummy) present observations that survive the filter.               *)
C12_CountRealOnly ==
    pc = "done" =>
        \A p \in tile :
            breakupImg.nPixels[p] =
                Cardinality({i \in AugSurvivors(p) : AugCol[i].dummy = "NO"})

----------------------------------------------------------------------------
(* C13: addDummyData appends n images, n the integer nearest to a tenth of *)
(* the size of the collection, each of them water on every pixel, flagged  *)
(* dummy, at evenly spaced times from Sept 1st to Oct 1st; the images that *)
(* were there keep their time and class and are flagged not dummy.         *)
C13_AppendsDummies ==
    pc = "filter" =>
        LET n  == Len(srcCol)
            nD == Len(imgCol) - n
            ts == [j \in 1..nD |-> imgCol[n + j].time_start]
        IN  /\ nD >= 0
            /\ DummyShare * nD - DummyShare \div 2 <= n
            /\ n <= DummyShare * nD + DummyShare \div 2
            /\ \A i \in 1..n :
                  /\ imgCol[i].time_start = srcCol[i].time_start
                  /\ imgCol[i].classIce = srcCol[i].classIce
                  /\ imgCol[i].dummy = "NO"
            /\ \A j \in 1..nD :
                  /\ imgCol[n + j].dummy = "YES"
                  /\ \A p \in tile : imgCol[n + j].classIce[p] = WATER
                  /\ DummyStart <= ts[j] /\ ts[j] <= DummyEnd
            /\ nD >= 2 => (ts[1] = DummyStart /\ ts[nD] = DummyEnd)
            /\ \A j \in 1..(nD - 2) : ts[j + 1] - ts[j] = ts[j + 2] - ts[j + 1]
            /\ \A j \in 1..(nD - 1) : ts[j] < ts[j + 1]

\* 26 passes, one of them masked: three dummy images on Sept 1st, 16th, Oct 1st
C13_Witness ==
    /\ pc = "filter"
    /\ Len(srcCol) = 26 /\ Len(imgCol) = 29
    /\ \E i \in 1..26 : \E p \in tile : imgCol[i].classIce[p] = NoData
    /\ imgCol[27].time_start = 486 /\ imgCol[28].time_start = 516
    /\ imgCol[29].time_start = 546
    /\ imgCol[28].dummy = "YES" /\ imgCol[26].dummy = "NO"

----------------------------------------------------------------------------
(* Vocabulary of the scan properties *)

\* the collection that entered, prepared for the scan, in chronological
\* order (the entering collection is in reverse chronological order)
ChronCol(T) ==
    [i \in 1..Len(srcCol) |-> Prep4ChangeDetection(srcCol[Len(srcCol) + 1 - i], T)]

RECURSIVE ScanPrefix(_, _, _)
\* breakupDate folded over the first n images of col, from the all ice image
ScanPrefix(col, n, T) ==
    IF n = 0 THEN AllIceImg(T)
    ELSE BreakupDate(col[n], ScanPrefix(col, n - 1, T), T)

\* the prepared collection col as seen on pixel p alone
OnPixel(col, p) ==
    [i \in 1..Len(col) |->
        [time_start |-> col[i].time_start,
         classIce   |-> [q \in {p} |-> col[i].classIce[p]],
         t          |-> [q \in {p} |-> col[i].t[p]]]]

\* the bands of the accumulator of iterate()
SlotBands == {"classIce", "t", "classIce_1", "t_1", "classIce_2", "t_2", "seqDetected"}

----------------------------------------------------------------------------
(* C14: whatever the order in which images with distinct acquisition times *)
(* are handed to detectSpringBreakup, the result has the t_1, t_2 and      *)
(* seqDetected of the scan in chronological order and the mask of the      *)
(* chronologically first observation.                                      *)
C14_OrderIndependent ==
    pc = "assemble" =>
        LET chron == ChronCol(tile)
            ref   == ScanPrefix(chron, Len(chron), tile)
        IN  /\ iceBreakupImg.t_1 = ref.t_1
            /\ iceBreakupImg.t_2 = ref.t_2
            /\ iceBreakupImg.seqDetected = ref.seqDetected
            /\ \A p \in tile :
                  iceBreakupImg.mask[p] = 1 <=> FirstObsIsIce(chron, p) = 1

\* four images handed over in neither chronological nor reverse order, with
\* a breakup on a later day than the one the order handed over suggests
C14_Witness ==
    /\ pc = "assemble"
    /\ Len(imgCol) = 4
    /\ imgCol[1].time_start > imgCol[2].time_start
    /\ imgCol[2].time_start < imgCol[3].time_start
    /\ \E p \in tile :
          /\ [i \in 1..4 |-> imgCol[i].classIce[p]] = <<WATER, ICE, WATER, ICE>>
          /\ Band(iceBreakupImg, "seqDetected", p) = 1
          /\ iceBreakupImg.t_2[p] < iceBreakupImg.t_1[p]

----------------------------------------------------------------------------
(* C15: at every step of the scan the slots and the flag of a pixel are    *)
(* those of the scan of that pixel's own series alone, and so are its mask *)
(* and its exported date, gap and count, whatever the other pixel of the   *)
(* tile holds.                                                             *)
C15_PixelAlone ==
    pc \in {"iterate", "assemble", "done"} =>
        \A p \in tile :
            \A own \in {OnPixel(seqCol, p)} :
            \A solo \in {ScanPrefix(own, idx - 1, {p})} :
            \A res \in {UpdateMask(solo, [q \in {p} |-> FirstObsIsIce(own, p)], {p})} :
                /\ \A b \in SlotBands : iceBreakupImg[b][p] = solo[b][p]
                /\ pc # "iterate" => iceBreakupImg.mask[p] = res.mask[p]
                /\ pc = "done" =>
                      /\ breakupImg.breakupDate[p] = BreakupDateBand(res, p)
                      /\ breakupImg.breakupGap[p] = BreakupGapBand(res, p)
                      /\ breakupImg.nPixels[p] = Len(PresentObs(own, p))

\* p breaks up on the third image; q starts with water, is flagged on the
\* second image and is masked on the third
C15_Witness ==
    /\ pc = "done"
    /\ tile = {"p", "q"}
    /\ Len(seqCol) = 3
    /\ [i \in 1..3 |-> seqCol[i].classIce["p"]] = <<ICE, WATER, WATER>>
    /\ [i \in 1..3 |-> seqCol[i].classIce["q"]] = <<WATER, WATER, NoData>>
    /\ iceBreakupImg.seqDetected["q"] = 1
    /\ breakupImg.breakupDate["q"] = NoData
    /\ breakupImg.breakupDate["p"] # NoData
    /\ breakupImg.nPixels["q"] = 2

----------------------------------------------------------------------------
(* Vocabulary of the steps of the scan *)

\* the observations of pixel p among the first n images of the scan
PrefixObs(n, p) == PresentObs(SubSeq(seqCol, 1, n), p)

\* the slots and the flag of pixel p
Slots(img, p) == [b \in SlotBands |-> img[b][p]]

\* observation j before the latest of the first n images (j = 0 the latest),
\* the all ice observation at poiStart where there is none
Recent(n, j, p) ==
    LET obs == PrefixObs(n, p)
    IN  IF Len(obs) > j
        THEN <<obs[Len(obs) - j].classIce[p], obs[Len(obs) - j].t[p]>>
        ELSE <<ICE, Doy(PoiStart)>>

\* the slots of img at pixel p hold the three latest of the first n images
HoldsRecent(img, n, p) ==
    /\ <<img.classIce[p], img.t[p]>> = Recent(n, 0, p)
    /\ <<img.classIce_1[p], img.t_1[p]>> = Recent(n, 1, p)
    /\ <<img.classIce_2[p], img.t_2[p]>> = Recent(n, 2, p)

\* iterate() takes a step
ScanStep == pc = "iterate" /\ idx' = idx + 1

----------------------------------------------------------------------------
(* C16: from the step that flags a pixel on, no image of the scan, present *)
(* or masked, ice or water, changes its slots or its flag.                 *)
C16_FrozenOnceDetected ==
    [][\A p \in tile :
          (pc = "iterate" /\ iceBreakupImg.seqDetected[p] = 1) =>
              Slots(iceBreakupImg', p) = Slots(iceBreakupImg, p)]_vars

\* an ICE observation was scanned after the pixel had been flagged
C16_Witness ==
    /\ pc = "iterate" /\ idx = 5
    /\ \E p \in tile :
          /\ [i \in 1..4 |-> seqCol[i].classIce[p]] = <<ICE, WATER, WATER, ICE>>
          /\ iceBreakupImg.seqDetected[p] = 1
          /\ iceBreakupImg.classIce[p] = WATER
          /\ iceBreakupImg.t[p] = seqCol[3].t[p]

----------------------------------------------------------------------------
(* C17: an image masked on a pixel leaves the slots and the flag of the    *)
(* pixel as they were; an observation of a pixel not yet flagged becomes   *)
(* the current slot, the current slot lag 1 and lag 1 lag 2; so the slots  *)
(* hold the three latest observations in chronological order, up to the    *)
(* observation that flags the pixel.                                       *)
C17_MaskedSkipsPresentShifts ==
    /\ [][ScanStep =>
            \A p \in tile :
                LET image == seqCol[idx]
                    old   == iceBreakupImg
                    new   == iceBreakupImg'
                IN  /\ image.classIce[p] = NoData => Slots(new, p) = Slots(old, p)
                    /\ (image.classIce[p] # NoData /\ old.seqDetected[p] # 1) =>
                          /\ new.classIce[p] = image.classIce[p]
                          /\ new.t[p] = image.t[p]
                          /\ new.classIce_1[p] = old.classIce[p]
                          /\ new.t_1[p] = old.t[p]
                          /\ new.classIce_2[p] = old.classIce_1[p]
                          /\ new.t_2[p] = old.t_1[p]]_vars
    /\ [](pc = "iterate" =>
            \A p \in tile :
                \/ HoldsRecent(iceBreakupImg, idx - 1, p)
                \/ /\ iceBreakupImg.seqDetected[p] = 1
                   /\ \E n \in 1..(idx - 1) : HoldsRecent(iceBreakupImg, n, p))

\* a masked image between two observations: the slots skip it
C17_Witness ==
    /\ pc = "iterate" /\ idx = 5
    /\ \E p \in tile :
          /\ [i \in 1..4 |-> seqCol[i].classIce[p]] = <<WATER, ICE, NoData, WATER>>
          /\ iceBreakupImg.t[p] = seqCol[4].t[p]
          /\ iceBreakupImg.t_1[p] = seqCol[2].t[p]
          /\ iceBreakupImg.t_2[p] = seqCol[1].t[p]
          /\ iceBreakupImg.seqDetected[p] = 0

----------------------------------------------------------------------------
(* C18: all along the scan of a collection sorted chronologically, with    *)
(* images from poiStart on within the year, t_2 <= t_1 <= t on every       *)
(* pixel; t_1 - t_2 is never negative and the exported breakupGap is that  *)
(* difference, neither clamped nor wrapped by toUint16.                    *)
C18_SlotTimesOrdered ==
    pc \in {"iterate", "assemble", "done"} =>
        \A p \in tile :
            /\ iceBreakupImg.t_2[p] <= iceBreakupImg.t_1[p]
            /\ iceBreakupImg.t_1[p] <= iceBreakupImg.t[p]
            /\ iceBreakupImg.t_1[p] - iceBreakupImg.t_2[p] <= Uint16Max
            /\ (pc = "done" /\ breakupImg.breakupGap[p] # NoData) =>
                  breakupImg.breakupGap[p] = iceBreakupImg.t_1[p] - iceBreakupImg.t_2[p]

\* a gap of 40 days exported as it is, the current slot later still
C18_Witness ==
    /\ pc = "done"
    /\ \E p \in tile :
          /\ breakupImg.breakupGap[p] = 40
          /\ iceBreakupImg.t_2[p] = 50
          /\ iceBreakupImg.t_1[p] = 90
          /\ iceBreakupImg.t[p] = 100

----------------------------------------------------------------------------
(* C19: where the result is flagged and not masked by the first            *)
(* observation check, t_2 and t_1 are the days of two observations of the  *)
(* pixel, an ICE and the WATER after it, never the all ice image of         *)
(* poiStart, and the flag was not raised before the third observation.     *)
C19_RealObservations ==
    pc \in {"assemble", "done"} =>
        \A p \in tile :
            Band(iceBreakupImg, "seqDetected", p) = 1 =>
                \A cs \in {ClassesAt(seqCol, p)} : \A ds \in {DaysAt(seqCol, p)} :
                    /\ \E k \in 1..(Len(cs) - 2) :
                          /\ cs[k] = ICE /\ cs[k + 1] = WATER /\ cs[k + 2] = WATER
                          /\ iceBreakupImg.t_2[p] = ds[k]
                          /\ iceBreakupImg.t_1[p] = ds[k + 1]
                          /\ iceBreakupImg.t[p] = ds[k + 2]
                    /\ \A n \in 0..Len(seqCol) :
                          ScanPrefix(seqCol, n, tile).seqDetected[p] = 1 =>
                              Len(PrefixObs(n, p)) >= 3

\* flagged on the third observation, the fourth image of the collection,
\* with a masked image in between and the first observation after poiStart
C19_Witness ==
    /\ pc = "done"
    /\ \E p \in tile :
          /\ [i \in 1..Len(seqCol) |-> seqCol[i].classIce[p]]
                = <<ICE, NoData, WATER, WATER>>
          /\ seqCol[1].t[p] > Doy(PoiStart)
          /\ Band(iceBreakupImg, "seqDetected", p) = 1
          /\ iceBreakupImg.t_2[p] = seqCol[1].t[p]
          /\ breakupImg.breakupDate[p] = seqCol[3].t[p]

----------------------------------------------------------------------------
(* C20: from the all ice image with seqDetected = 0 on, at every step of   *)
(* the scan seqDetected is 1 exactly where the current slot is WATER, lag  *)
(* 1 is WATER and lag 2 is ICE, and a flag that is 1 stays 1.              *)
C20_FlagIsPattern ==
    /\ [](pc \in {"iterate", "assemble"} =>
            \A p \in tile :
                /\ iceBreakupImg.seqDetected[p] \in {0, 1}
                /\ iceBreakupImg.seqDetected[p] = 1 <=>
                      /\ iceBreakupImg.classIce[p] = WATER
                      /\ iceBreakupImg.classIce_1[p] = WATER
                      /\ iceBreakupImg.classIce_2[p] = ICE)
    /\ [](pc = "iterate" /\ idx = 1 =>
            \A p \in tile :
                /\ iceBreakupImg.seqDetected[p] = 0
                /\ iceBreakupImg.classIce[p] = ICE
                /\ iceBreakupImg.classIce_1[p] = ICE
                /\ iceBreakupImg.classIce_2[p] = ICE)
    /\ [][\A p \in tile :
            iceBreakupImg.seqDetected[p] = 1 => iceBreakupImg'.seqDetected[p] = 1]_vars

\* the flag was recomputed over the same slots by a water and a masked image
C20_Witness ==
    /\ pc = "iterate" /\ idx = 5
    /\ \E p \in tile :
          /\ [i \in 1..4 |-> seqCol[i].classIce[p]] = <<WATER, WATER, NoData, WATER>>
          /\ iceBreakupImg.seqDetected[p] = 1
          /\ iceBreakupImg.classIce_2[p] = ICE
          /\ iceBreakupImg.t[p] = seqCol[2].t[p]

----------------------------------------------------------------------------
(* Vocabulary of the filtered scan *)

\* the collection that entered, in chronological order, with the
\* observations of pixel p outside keep (those the filter discards) masked
SurvivorCol(keep, p) ==
    [i \in 1..Len(srcCol) |->
        LET j == Len(srcCol) + 1 - i
        IN  [time_start |-> srcCol[j].time_start,
             classIce   |-> [q \in {p} |-> IF j \in keep THEN srcCol[j].classIce[p]
                                           ELSE NoData],
             t          |-> [q \in {p} |-> Doy(srcCol[j].time_start)]]]

\* the first observation of pixel p before the filter, NoData if none
FirstEntered(p) == FirstNonNull([i \in 1..Len(srcCol) |-> ChronCol(tile)[i].classIce[p]])

----------------------------------------------------------------------------
(* C21: with the filter on, the scan and the first observation check see   *)
(* the observations the filter kept and no other: the slots and the flag   *)
(* are those of the scan of the kept observations, and the pixel is masked *)
(* exactly when the first kept observation is not ICE, whatever the        *)
(* discarded observations before it were.                                  *)
C21_ScanAfterFilter ==
    (logFilter /\ pc \in {"assemble", "done"}) =>
        \A p \in tile :
            \A keep \in {Survivors(p)} :
            \A kept \in {SurvivorCol(keep, p)} :
            \A solo \in {ScanPrefix(kept, Len(kept), {p})} :
                /\ [i \in 1..Len(seqCol) |-> seqCol[i].classIce[p]]
                      = [i \in 1..Len(kept) |-> kept[i].classIce[p]]
                /\ \A b \in SlotBands : iceBreakupImg[b][p] = solo[b][p]
                /\ iceBreakupImg.mask[p] = 1 <=> FirstNonNull(
                      [i \in 1..Len(kept) |-> kept[i].classIce[p]]) = ICE
                /\ pc = "done" =>
                      (breakupImg.breakupDate[p] # NoData =>
                          /\ iceBreakupImg.mask[p] = 1
                          /\ breakupImg.breakupDate[p] = solo.t_1[p])

\* a leading WATER observation was discarded: the pixel is kept and the
\* breakup of the observations after it is reported
C21_Witness ==
    /\ logFilter /\ pc = "done"
    /\ \E p \in tile :
          /\ FirstEntered(p) = WATER
          /\ seqCol[1].classIce[p] = NoData
          /\ iceBreakupImg.mask[p] = 1
          /\ breakupImg.breakupDate[p] # NoData
          /\ iceBreakupImg.t_2[p] > seqCol[1].t[p]

\* the other case: a leading ICE observation was discarded, the first kept
\* observation is WATER and the pixel is masked
C21_IceDiscarded ==
    /\ logFilter /\ pc = "done"
    /\ \E p \in tile :
          /\ FirstEntered(p) = ICE
          /\ FirstNonNull([i \in 1..Len(seqCol) |-> seqCol[i].classIce[p]]) = WATER
          /\ iceBreakupImg.mask[p] = 0
          /\ breakupImg.breakupDate[p] = NoData

Next ==
    \/ FitStep
    \/ FilterStep
    \/ CountFiltered
    \/ CountUnfiltered
    \/ DetectSetup
    \/ IterateStep
    \/ MaskFirstObs
    \/ Assemble

Spec == Init /\ [][Next]_vars

\* detectSpringBreakup on its own
NextPerm ==
    \/ DetectSetup
    \/ IterateStep
    \/ MaskFirstObs

SpecPerm == InitPerm /\ [][NextPerm]_vars

\* STEP 4 without the filter and STEP 5, over two pixels
NextTile ==
    \/ CountUnfiltered
    \/ DetectSetup
    \/ IterateStep
    \/ MaskFirstObs
    \/ Assemble

SpecTile == InitTile /\ [][NextTile]_vars

\* addDummyData on its own
NextAugment == AddDummyStep

SpecAugment == InitAugment /\ [][NextAugment]_vars

\* addDummyData, then STEP 4 and STEP 5
NextDummy ==
    \/ AddDummyStep
    \/ FitStep
    \/ FilterStep
    \/ CountFiltered
    \/ CountUnfiltered
    \/ DetectSetup
    \/ IterateStep
    \/ MaskFirstObs
    \/ Assemble

SpecDummy == InitDummy /\ [][NextDummy]_vars

====
